---- MODULE Spec2Model ----
(***************************************************************************)
(* Incident reporting backend: the incidents table behind                  *)
(* IncidentsService (create / findAll / update / remove / exportToCSV) and *)
(* the IncidentsController routes that call it.  Text values are sequences *)
(* of one-character strings so that the CSV text can be built and parsed.  *)
(* Timestamps are milliseconds since the epoch.                            *)
(***************************************************************************)
EXTENDS Integers, Sequences, FiniteSets, TLC

VARIABLES store, nextId, last, pending,
          showEditModal, editingIncident, editData

\* The state of the edit form of the page.
uiVars == <<showEditModal, editingIncident, editData>>

vars == <<store, nextId, last, pending, uiVars>>

\* ---------------------------------------------------------------- bounds
\* Largest id the auto-increment column hands out in the model.
MaxId == 2
\* Largest id handed out while update requests overlap.
MaxConcId == 2

\* ------------------------------------------------------------- constants
\* A missing text value (null / undefined), distinct from the empty text.
Null == <<"null">>
\* A missing timestamp (a nullable datetime column, an absent date field).
NoDate == -1

MsPerHour == 1000 * 60 * 60
HoursPerDay == 24
MsPerDay == MsPerHour * HoursPerDay
HalfHour == MsPerHour \div 2

Quote == "\""
Comma == ","
Newline == "\n"

Open == <<"O", "p", "e", "n">>
InProgress == <<"I", "n", " ", "P", "r", "o", "g", "r", "e", "s", "s">>
Closed == <<"C", "l", "o", "s", "e", "d">>
Statuses == {Open, InProgress, Closed}

\* ---------------------------------------------------------------- inputs
\* Incident times: the epoch and 05:30 the same day.
DateTimes == {0, 11 * HalfHour}
\* Closing times: 05:00, 29:00 and 53:30 after the epoch.
ClosedOns == {10 * HalfHour, 58 * HalfHour, 107 * HalfHour}
\* Wall clock at insertion (CreateDateColumn).
Clocks == {120 * HalfHour}
Names == {<<"a">>}
Descriptions == {<<"d">>, <<Quote, Comma, Quote>>}
Files == {<<"f">>}

\* -------------------------------------------------- number to text (JS)
DigitChars == <<"0", "1", "2", "3", "4", "5", "6", "7", "8", "9">>

RECURSIVE NatToChars(_)
NatToChars(n) ==
    IF n < 10 THEN <<DigitChars[n + 1]>>
    ELSE NatToChars(n \div 10) \o <<DigitChars[(n % 10) + 1]>>

IntToChars(n) ==
    IF n < 0 THEN <<"-">> \o NatToChars(-n) ELSE NatToChars(n)

\* Elapsed time between the incident's dateTime and the supplied closedOn.
diffMs(start, end) == end - start
\* Variant: the hours rounded to the nearest instead of floored.
diffHours_Rounded(start, end) == (diffMs(start, end) + HalfHour) \div MsPerHour
diffHours(start, end) == diffMs(start, end) \div MsPerHour
diffDays(start, end) == diffHours(start, end) \div HoursPerDay

totalTime(start, end) ==
    IF diffDays(start, end) > 0
    THEN IntToChars(diffDays(start, end)) \o <<" ", "d", "a", "y", "s">>
    ELSE IntToChars(diffHours(start, end)) \o <<" ", "h", "o", "u", "r", "s">>

\* ------------------------------------------------------------ the entity
Incident ==
    [id : 1..MaxId,
     reportedBy : Names,
     assignedTo : Names,
     dateTime : DateTimes,
     description : Descriptions,
     attachment : Files \cup {Null},
     status : Statuses,
     closedOn : ClosedOns \cup {NoDate},
     totalTime : {totalTime(d, c) : d \in DateTimes, c \in ClosedOns} \cup {Null},
     createdAt : Clocks]

\* ------------------------------------------------------------------ DTOs
CreateIncidentDto ==
    [reportedBy : Names \cup {<<>>, Null},
     assignedTo : Names \cup {<<>>, Null},
     dateTime : DateTimes \cup {NoDate},
     description : Descriptions \cup {<<>>, Null},
     attachment : Files \cup {Null}]

UpdateIncidentDto ==
    [status : Statuses \cup {Null},
     closedOn : ClosedOns \cup {NoDate}]

\* JavaScript truthiness of an optional text field and of an optional
\* date-string field.
Truthy(v) == v # Null /\ v # <<>>
HasDate(t) == t # NoDate


\* The POST requests of the model: two complete ones (the second with an
\* uploaded file and a description holding quote and comma characters),
\* and the first one with each required field in turn empty or missing.
PlainBody ==
    [reportedBy |-> <<"a">>, assignedTo |-> <<"a">>, dateTime |-> 0,
     description |-> <<"d">>, attachment |-> Null]
QuotedBody ==
    [reportedBy |-> <<"a">>, assignedTo |-> <<"a">>, dateTime |-> 11 * HalfHour,
     description |-> <<Quote, Comma, Quote>>, attachment |-> Null]
IncompleteBodies ==
    {[PlainBody EXCEPT !.reportedBy = v] : v \in {<<>>, Null}}
    \cup {[PlainBody EXCEPT !.assignedTo = v] : v \in {<<>>, Null}}
    \cup {[PlainBody EXCEPT !.description = v] : v \in {<<>>, Null}}
    \cup {[PlainBody EXCEPT !.dateTime = NoDate]}
CreateRequests ==
    {[body |-> PlainBody, file |-> Null], [body |-> QuotedBody, file |-> <<"f">>]}
    \cup {[body |-> b, file |-> Null] : b \in IncompleteBodies}

\* Variant: only absent fields are rejected, empty ones pass.
ValidCreateDto_PresentOnly(dto) ==
    /\ dto.reportedBy # Null
    /\ dto.assignedTo # Null
    /\ HasDate(dto.dateTime)
    /\ dto.description # Null

\* Request validation of the create body: every required field present
\* and non-empty.
ValidCreateDto(dto) ==
    /\ Truthy(dto.reportedBy)
    /\ Truthy(dto.assignedTo)
    /\ HasDate(dto.dateTime)
    /\ Truthy(dto.description)

\* --------------------------------------------------------------- service
\* Variant: the status column defaults to 'In Progress'.
create_DefaultInProgress(st, nid, dto, now) ==
    LET incident == [id |-> nid,
                     reportedBy |-> dto.reportedBy,
                     assignedTo |-> dto.assignedTo,
                     dateTime |-> dto.dateTime,
                     description |-> dto.description,
                     attachment |-> dto.attachment,
                     status |-> InProgress,
                     closedOn |-> NoDate,
                     totalTime |-> Null,
                     createdAt |-> now]
    IN  [store |-> (nid :> incident) @@ st, ret |-> <<incident>>]

\* repository.create + repository.save of a new row: the generated id, the
\* column defaults and the creation timestamp come from the entity.
create(st, nid, dto, now) ==
    LET incident == [id |-> nid,
                     reportedBy |-> dto.reportedBy,
                     assignedTo |-> dto.assignedTo,
                     dateTime |-> dto.dateTime,
                     description |-> dto.description,
                     attachment |-> dto.attachment,
                     status |-> Open,
                     closedOn |-> NoDate,
                     totalTime |-> Null,
                     createdAt |-> now]
    IN  [store |-> (nid :> incident) @@ st, ret |-> <<incident>>]

\* Variant: closedOn stored without the computed totalTime.
ApplyUpdate_ClosedOnOnly(incident, dto) ==
    LET withStatus == IF Truthy(dto.status)
                      THEN [incident EXCEPT !.status = dto.status]
                      ELSE incident
    IN  IF HasDate(dto.closedOn)
        THEN [withStatus EXCEPT !.closedOn = dto.closedOn]
        ELSE withStatus

\* Variant: a body without closedOn clears the closure fields.
ApplyUpdate_ClearsClosure(incident, dto) ==
    LET withStatus == IF Truthy(dto.status)
                      THEN [incident EXCEPT !.status = dto.status]
                      ELSE incident
    IN  IF HasDate(dto.closedOn)
        THEN [withStatus EXCEPT
                !.totalTime = totalTime(incident.dateTime, dto.closedOn),
                !.closedOn = dto.closedOn]
        ELSE [withStatus EXCEPT !.totalTime = Null, !.closedOn = NoDate]

\* Variant: the closing time also overwrites the incident's dateTime.
ApplyUpdate_MovesDateTime(incident, dto) ==
    LET withStatus == IF Truthy(dto.status)
                      THEN [incident EXCEPT !.status = dto.status]
                      ELSE incident
    IN  IF HasDate(dto.closedOn)
        THEN [withStatus EXCEPT
                !.totalTime = totalTime(incident.dateTime, dto.closedOn),
                !.closedOn = dto.closedOn,
                !.dateTime = dto.closedOn]
        ELSE withStatus

\* Variant: a closed incident keeps its status.
ApplyUpdate_ClosedIsFinal(incident, dto) ==
    LET withStatus == IF Truthy(dto.status) /\ incident.status # Closed
                      THEN [incident EXCEPT !.status = dto.status]
                      ELSE incident
    IN  IF HasDate(dto.closedOn)
        THEN [withStatus EXCEPT
                !.totalTime = totalTime(incident.dateTime, dto.closedOn),
                !.closedOn = dto.closedOn]
        ELSE withStatus

\* Variant: a second closing counts from the previous closing time.
ApplyUpdate_FromPreviousClose(incident, dto) ==
    LET withStatus == IF Truthy(dto.status)
                      THEN [incident EXCEPT !.status = dto.status]
                      ELSE incident
        start == IF HasDate(incident.closedOn) THEN incident.closedOn
                 ELSE incident.dateTime
    IN  IF HasDate(dto.closedOn)
        THEN [withStatus EXCEPT
                !.totalTime = totalTime(start, dto.closedOn),
                !.closedOn = dto.closedOn]
        ELSE withStatus

\* The field assignments update makes on the row it has read.
ApplyUpdate(incident, dto) ==
    LET withStatus == IF Truthy(dto.status)
                      THEN [incident EXCEPT !.status = dto.status]
                      ELSE incident
    IN  IF HasDate(dto.closedOn)
        THEN [withStatus EXCEPT
                !.totalTime = totalTime(incident.dateTime, dto.closedOn),
                !.closedOn = dto.closedOn]
        ELSE withStatus

\* findOne, the NotFound check, the assignments and save.
update(st, id, dto) ==
    IF id \notin DOMAIN st
    THEN [store |-> st, result |-> "NotFound", ret |-> <<>>]
    ELSE LET incident == ApplyUpdate(st[id], dto)
         IN  [store |-> [st EXCEPT ![id] = incident],
              result |-> "ok", ret |-> <<incident>>]

\* findOne({ where: { id } }): the row, or nothing.
findOne(st, id) == IF id \in DOMAIN st THEN <<st[id]>> ELSE <<>>

\* Variant: a null closedOn of the entity does not overwrite the row's
\* closure columns.
save_KeepsClosure(st, incident) ==
    IF incident.id \in DOMAIN st /\ incident.closedOn = NoDate
    THEN [st EXCEPT ![incident.id] =
             [incident EXCEPT !.closedOn = st[incident.id].closedOn,
                              !.totalTime = st[incident.id].totalTime]]
    ELSE (incident.id :> incident) @@ st

\* repository.save of an entity that carries its id: the row with that id
\* becomes the entity, and is inserted when the table has no such row.
save(st, incident) == (incident.id :> incident) @@ st

\* Variant: the affected row count is not looked at.
remove_Unchecked(st, id) ==
    [store |-> [i \in DOMAIN st \ {id} |-> st[i]], result |-> "ok"]

\* repository.delete and the check of the affected row count.
remove(st, id) ==
    LET affected == IF id \in DOMAIN st THEN 1 ELSE 0
    IN  IF affected = 0
        THEN [store |-> st, result |-> "NotFound"]
        ELSE [store |-> [i \in DOMAIN st \ {id} |-> st[i]], result |-> "ok"]

\* Variant: the rows in ascending order of id.
RECURSIVE findAll_Ascending(_)
findAll_Ascending(st) ==
    IF DOMAIN st = {} THEN <<>>
    ELSE LET low == CHOOSE i \in DOMAIN st : \A j \in DOMAIN st : i <= j
         IN  <<st[low]>> \o findAll_Ascending([i \in DOMAIN st \ {low} |-> st[i]])

\* find({ order: { id: 'DESC' } }): the rows, largest id first.
RECURSIVE findAll(_)
findAll(st) ==
    IF DOMAIN st = {} THEN <<>>
    ELSE LET top == CHOOSE i \in DOMAIN st : \A j \in DOMAIN st : j <= i
         IN  <<st[top]>> \o findAll([i \in DOMAIN st \ {top} |-> st[i]])

\* Date.toLocaleString: "<day>, <hour>:<mm>", the day counted from the
\* epoch; the text has the comma of the en-US form and no quote character.
toLocaleString(t) ==
    LET minutes == (t % MsPerHour) \div (MsPerHour \div 60)
    IN  NatToChars(t \div MsPerDay) \o <<Comma, " ">>
        \o NatToChars((t % MsPerDay) \div MsPerHour) \o <<":">>
        \o (IF minutes < 10 THEN <<"0">> ELSE <<>>) \o NatToChars(minutes)

RECURSIVE join(_, _)
join(parts, sep) ==
    IF parts = <<>> THEN <<>>
    ELSE IF Len(parts) = 1 THEN parts[1]
    ELSE parts[1] \o sep \o join(Tail(parts), sep)

headers ==
    << <<"I", "D">>,
       <<"R", "e", "p", "o", "r", "t", "e", "d", " ", "B", "y">>,
       <<"A", "s", "s", "i", "g", "n", "e", "d", " ", "T", "o">>,
       <<"D", "a", "t", "e", " ", "&", " ", "T", "i", "m", "e">>,
       <<"D", "e", "s", "c", "r", "i", "p", "t", "i", "o", "n">>,
       <<"S", "t", "a", "t", "u", "s">>,
       <<"C", "l", "o", "s", "e", "d", " ", "O", "n">>,
       <<"T", "o", "t", "a", "l", " ", "T", "i", "m", "e">> >>

\* The cells of one incident, before quoting.
csvRow(inc) ==
    << IntToChars(inc.id),
       inc.reportedBy,
       inc.assignedTo,
       toLocaleString(inc.dateTime),
       inc.description,
       inc.status,
       IF HasDate(inc.closedOn) THEN toLocaleString(inc.closedOn) ELSE <<>>,
       IF Truthy(inc.totalTime) THEN inc.totalTime ELSE <<>> >>

quoteCell(cell) == <<Quote>> \o cell \o <<Quote>>

exportToCSV(st) ==
    LET incidents == findAll(st)
        rows == [i \in 1..Len(incidents) |-> csvRow(incidents[i])]
        lines == [i \in 1..Len(rows) |->
                    join([k \in 1..Len(rows[i]) |-> quoteCell(rows[i][k])],
                         <<Comma>>)]
    IN  join(<<join(headers, <<Comma>>)>> \o lines, <<Newline>>)

\* ---------------------------------------------------------- state machine
\* last records the request just served: the operation, the id and body it
\* was given (the body only when the request reached the table), the
\* outcome and the value returned.
NoDto == [status |-> Null, closedOn |-> NoDate]

Idle == [op |-> "init", id |-> 0, dto |-> NoDto, result |-> "ok", ret |-> <<>>]

\* The update requests in flight: per request slot nothing, or the id and
\* body of the request with the row it read ("read") or saved ("saved").
Slots == {1, 2}
NoRequest == <<>>

\* No incident selected in the page.
NoIncident == 0
\* useState of editData: status 'Open', closedOn ''.
InitialEditData == [status |-> Open, closedOn |-> NoDate]

Init ==
    /\ store = <<>>
    /\ nextId = 1
    /\ last = Idle
    /\ pending = [w \in Slots |-> NoRequest]
    /\ showEditModal = FALSE
    /\ editingIncident = NoIncident
    /\ editData = InitialEditData

\* POST /api/incidents
Create ==
    /\ \E req \in CreateRequests, now \in Clocks :
        LET dto == IF req.file # Null
                   THEN [req.body EXCEPT !.attachment = req.file]
                   ELSE req.body
        IN  IF ValidCreateDto(dto)
            THEN /\ nextId <= MaxId
                 /\ LET r == create(store, nextId, dto, now)
                    IN  /\ store' = r.store
                        /\ nextId' = nextId + 1
                        /\ last' = [op |-> "create", id |-> nextId, dto |-> dto,
                                    result |-> "ok", ret |-> r.ret]
            ELSE /\ last' = [op |-> "create", id |-> 0, dto |-> dto,
                             result |-> "ValidationError", ret |-> <<>>]
                 /\ UNCHANGED <<store, nextId>>
    /\ UNCHANGED <<pending, uiVars>>

\* GET /api/incidents
FindAll ==
    /\ last' = [op |-> "findAll", id |-> 0, dto |-> NoDto,
                result |-> "ok", ret |-> findAll(store)]
    /\ UNCHANGED <<store, nextId, pending, uiVars>>

\* PATCH /api/incidents/:id
Update ==
    \E id \in 1..MaxId, dto \in UpdateIncidentDto :
        LET r == update(store, id, dto)
        IN  /\ store' = r.store
            /\ last' = [op |-> "update", id |-> id,
                        dto |-> IF r.result = "ok" THEN dto ELSE NoDto,
                        result |-> r.result, ret |-> r.ret]
            /\ UNCHANGED <<nextId, pending, uiVars>>

\* DELETE /api/incidents/:id
Remove ==
    \E id \in 1..MaxId :
        LET r == remove(store, id)
        IN  /\ store' = r.store
            /\ last' = [op |-> "remove", id |-> id, dto |-> NoDto,
                        result |-> r.result, ret |-> <<>>]
            /\ UNCHANGED <<nextId, pending, uiVars>>

\* GET /api/incidents/export
ExportCSV ==
    /\ last' = [op |-> "exportToCSV", id |-> 0, dto |-> NoDto,
                result |-> "ok", ret |-> exportToCSV(store)]
    /\ UNCHANGED <<store, nextId, pending, uiVars>>

Next ==
    \/ Create
    \/ FindAll
    \/ Update
    \/ Remove
    \/ ExportCSV

Spec == Init /\ [][Next]_vars

TypeOK ==
    /\ DOMAIN store \subseteq 1..MaxId
    /\ \A id \in DOMAIN store : store[id] \in Incident /\ store[id].id = id
    /\ nextId \in 1..(MaxId + 1)
    /\ \A id \in DOMAIN store : id < nextId
    /\ last.op = "create" => last.dto \in CreateIncidentDto
    /\ last.op = "update" => last.dto \in UpdateIncidentDto

\* ------------------------------------------------------------------ C1
\* C1: in every reachable state every stored incident has closedOn
\* non-null if and only if its status is 'Closed'.
C1_ClosedOnIffClosed ==
    \A id \in DOMAIN store :
        HasDate(store[id].closedOn) <=> (store[id].status = Closed)

\* ------------------------------------------------------------------ C2
\* C2: in every reachable state every stored incident has totalTime
\* non-null if and only if its closedOn is non-null.
C2_TotalTimeIffClosedOn ==
    \A id \in DOMAIN store :
        (store[id].totalTime # Null) <=> (store[id].closedOn # NoDate)

C2_Witness ==
    /\ last.op = "update"
    /\ last.result = "ok"
    /\ store[last.id].closedOn # NoDate
    /\ store[last.id].totalTime # Null
    /\ \E id \in DOMAIN store : store[id].closedOn = NoDate

\* ------------------------------------------------------------------ C3
\* C3: after an update of an existing incident that supplies closedOn,
\* with h the whole hours (floor) from the incident's dateTime to closedOn,
\* the stored totalTime is "<floor(h/24)> days" when h >= 24 and
\* "<h> hours" otherwise; 29 hours gives "1 days", 5 hours "5 hours".
C3_TotalTimeOnClose ==
    (last.op = "update" /\ last.result = "ok" /\ last.dto.closedOn # NoDate) =>
        LET inc == store[last.id]
            ms == last.dto.closedOn - inc.dateTime
            h == CHOOSE k \in -HoursPerDay..(3 * HoursPerDay) :
                     k * MsPerHour <= ms /\ ms < (k + 1) * MsPerHour
        IN  /\ h >= 24 =>
                inc.totalTime = IntToChars(h \div 24) \o <<" ", "d", "a", "y", "s">>
            /\ h < 24 =>
                inc.totalTime = IntToChars(h) \o <<" ", "h", "o", "u", "r", "s">>
            /\ h = 29 => inc.totalTime = <<"1", " ", "d", "a", "y", "s">>
            /\ h = 5 => inc.totalTime = <<"5", " ", "h", "o", "u", "r", "s">>
            /\ h = 53 => inc.totalTime = <<"2", " ", "d", "a", "y", "s">>
            /\ h = 23 => inc.totalTime = <<"2", "3", " ", "h", "o", "u", "r", "s">>
            /\ h = -1 => inc.totalTime = <<"-", "1", " ", "h", "o", "u", "r", "s">>

C3_Witness ==
    /\ last.op = "update"
    /\ last.result = "ok"
    /\ last.dto.closedOn - store[last.id].dateTime = 29 * MsPerHour
    /\ store[last.id].totalTime = <<"1", " ", "d", "a", "y", "s">>

\* ------------------------------------------------------------------ C4
\* C4: a create with a valid body succeeds and returns the stored record,
\* whose status is 'Open', whose closedOn and totalTime are null and whose
\* id is the id of no record that was in the store before the call.
C4_CreateReturnsOpenFresh ==
    [][(last'.op = "create" /\ ValidCreateDto(last'.dto)) =>
          /\ last'.result = "ok"
          /\ Len(last'.ret) = 1
          /\ LET r == last'.ret[1]
             IN  /\ r.status = Open
                 /\ r.closedOn = NoDate
                 /\ r.totalTime = Null
                 /\ r.id \notin DOMAIN store
                 /\ r.id \in DOMAIN store'
                 /\ store'[r.id] = r]_vars

C4_Witness ==
    /\ last.op = "create"
    /\ last.result = "ok"
    /\ last.id = 2
    /\ 1 \in DOMAIN store
    /\ store[1].status = Closed

\* ------------------------------------------------------------------ C5
\* C5: an update of an existing incident whose body supplies no closedOn
\* leaves the incident's closedOn and totalTime as they were, whatever the
\* new status is.
C5_NoClosedOnKeepsClosure ==
    [][(last'.op = "update" /\ last'.result = "ok"
            /\ last'.dto.closedOn = NoDate) =>
          /\ store'[last'.id].closedOn = store[last'.id].closedOn
          /\ store'[last'.id].totalTime = store[last'.id].totalTime]_vars

C5_Witness ==
    /\ last.op = "update"
    /\ last.result = "ok"
    /\ last.dto.closedOn = NoDate
    /\ last.dto.status = Closed
    /\ store[last.id].status = Closed
    /\ store[last.id].closedOn = NoDate
    /\ store[last.id].totalTime = Null

\* ------------------------------------------------------------------ C6
\* C6: update and delete of an id that references no stored record fail
\* with NotFound and leave the store as it was.
C6_UnknownIdNotFound ==
    [][(last'.op \in {"update", "remove"} /\ last'.id \notin DOMAIN store) =>
          /\ last'.result = "NotFound"
          /\ store' = store]_vars

C6_Witness ==
    /\ last.op = "remove"
    /\ last.result = "NotFound"
    /\ last.id \notin DOMAIN store
    /\ DOMAIN store # {}

\* ------------------------------------------------------------------ C7
\* C7: a create whose reportedBy, assignedTo, dateTime or description is
\* missing or empty is rejected with ValidationError and stores nothing.
C7_IncompleteCreateRejected ==
    [][(/\ last'.op = "create"
        /\ \/ last'.dto.reportedBy \in {<<>>, Null}
           \/ last'.dto.assignedTo \in {<<>>, Null}
           \/ last'.dto.description \in {<<>>, Null}
           \/ last'.dto.dateTime = NoDate) =>
          /\ last'.result = "ValidationError"
          /\ store' = store
          /\ nextId' = nextId]_vars

C7_Witness ==
    /\ last.op = "create"
    /\ last.result = "ValidationError"
    /\ last.dto.description = <<>>
    /\ DOMAIN store # {}

\* ------------------------------------------------------------------ C8
\* C8: list() returns exactly the stored incidents, each once, in strictly
\* descending order of id.
C8_ListDescending ==
    (last.op = "findAll") =>
        LET l == last.ret
        IN  /\ Len(l) = Cardinality(DOMAIN store)
            /\ \A i \in 1..Len(l) :
                   l[i].id \in DOMAIN store /\ l[i] = store[l[i].id]
            /\ \A i \in 1..Len(l), j \in 1..Len(l) :
                   i < j => l[i].id > l[j].id

C8_Witness ==
    /\ last.op = "findAll"
    /\ Len(last.ret) = 2
    /\ last.ret[1].id = 2
    /\ last.ret[2].id = 1
    /\ last.ret[2].status # Open

\* ------------------------------------------------------------------ C9
\* C9: the CSV export of a store holding N incidents is the header row
\* followed by exactly N data rows in list() order, each row made of
\* exactly 8 double-quoted fields: ID, Reported By, Assigned To,
\* Date & Time, Description, Status, Closed On, Total Time; for N = 0 it is
\* exactly the header row.
C9_CsvRows ==
    (last.op = "exportToCSV") =>
        LET text == last.ret
            list == findAll(store)
            breaks == {i \in 1..Len(text) : text[i] = Newline}
            nLines == Cardinality(breaks) + 1
            brk(k) == CHOOSE i \in breaks :
                          Cardinality({j \in breaks : j < i}) = k - 1
            line(k) == SubSeq(text,
                              IF k = 1 THEN 1 ELSE brk(k - 1) + 1,
                              IF k = nLines THEN Len(text) ELSE brk(k) - 1)
            \* a row read as quoted fields separated by commas
            quotes(r) == {i \in 1..Len(r) : r[i] = Quote}
            q(r, k) == CHOOSE i \in quotes(r) :
                           Cardinality({j \in quotes(r) : j < i}) = k - 1
            field(r, k) == SubSeq(r, q(r, 2 * k - 1) + 1, q(r, 2 * k) - 1)
            eightQuoted(r) ==
                /\ Cardinality(quotes(r)) = 2 * 8
                /\ q(r, 1) = 1
                /\ q(r, 2 * 8) = Len(r)
                /\ \A k \in 1..7 :
                       /\ q(r, 2 * k + 1) = q(r, 2 * k) + 2
                       /\ r[q(r, 2 * k) + 1] = Comma
        IN  /\ nLines = Len(list) + 1
            /\ line(1) = join(headers, <<Comma>>)
            /\ \A n \in 1..Len(list) :
                   n + 1 <= nLines =>
                       /\ eightQuoted(line(n + 1))
                       /\ field(line(n + 1), 1) = IntToChars(list[n].id)
                       /\ field(line(n + 1), 2) = list[n].reportedBy
                       /\ field(line(n + 1), 3) = list[n].assignedTo
                       /\ field(line(n + 1), 4) = toLocaleString(list[n].dateTime)
                       /\ field(line(n + 1), 5) = list[n].description
                       /\ field(line(n + 1), 6) = list[n].status
                       /\ field(line(n + 1), 7) =
                              (IF list[n].closedOn = NoDate THEN <<>>
                               ELSE toLocaleString(list[n].closedOn))
                       /\ field(line(n + 1), 8) =
                              (IF list[n].totalTime = Null THEN <<>>
                               ELSE list[n].totalTime)

\* ------------------------------------------------------------------ C10
\* C10: no step changes the id, dateTime, createdAt, reportedBy,
\* assignedTo, description or attachment of an incident that stays in the
\* store, and a successful update changes no other record and adds or
\* removes none.
C10_UpdateFrame ==
    [][/\ \A id \in DOMAIN store \cap DOMAIN store' :
              /\ store'[id].id = store[id].id
              /\ store'[id].dateTime = store[id].dateTime
              /\ store'[id].createdAt = store[id].createdAt
              /\ store'[id].reportedBy = store[id].reportedBy
              /\ store'[id].assignedTo = store[id].assignedTo
              /\ store'[id].description = store[id].description
              /\ store'[id].attachment = store[id].attachment
       /\ (last'.op = "update" /\ last'.result = "ok") =>
              /\ DOMAIN store' = DOMAIN store
              /\ \A id \in DOMAIN store \ {last'.id} : store'[id] = store[id]]_vars

C10_Witness ==
    /\ last.op = "update"
    /\ last.result = "ok"
    /\ last.dto.status = Closed
    /\ last.dto.closedOn # NoDate
    /\ Cardinality(DOMAIN store) = 2
    /\ store[last.id].closedOn = last.dto.closedOn

\* ------------------------------------------------------------------ C11
\* C11: an update of an existing incident always succeeds, whatever the
\* incident's current status, and when its body supplies a status S the
\* incident is stored with status S: no transition between Open,
\* In Progress and Closed is refused.
C11_AnyStatusReplaces ==
    [][(last'.op = "update" /\ last'.id \in DOMAIN store) =>
          /\ last'.result = "ok"
          /\ last'.id \in DOMAIN store'
          /\ last'.dto.status \in Statuses =>
                 /\ store'[last'.id].status = last'.dto.status
                 /\ last'.ret[1].status = last'.dto.status
          /\ \A c \in Statuses, S \in Statuses :
                 store[last'.id].status = c =>
                     update(store, last'.id,
                            [status |-> S, closedOn |-> NoDate]).store[last'.id].status = S]_vars

\* An incident that carries a closing time (so it was closed before) and
\* was just moved to Open by a body with no closedOn.
C11_Witness ==
    /\ last.op = "update"
    /\ last.result = "ok"
    /\ last.dto.status = Open
    /\ last.dto.closedOn = NoDate
    /\ store[last.id].status = Open
    /\ store[last.id].closedOn # NoDate

\* ------------------------------------------------- overlapping requests
\* update awaits findOne and then save, so another request can be served
\* between the two.  The other handlers make one repository call each.
CloseDto == [status |-> Closed, closedOn |-> 58 * HalfHour]
ProgressDto == [status |-> InProgress, closedOn |-> NoDate]
ConcDtos == {CloseDto, ProgressDto}

ConcCreate ==
    /\ nextId <= MaxConcId
    /\ \E now \in Clocks :
        LET r == create(store, nextId, PlainBody, now)
        IN  /\ store' = r.store
            /\ nextId' = nextId + 1
            /\ last' = [op |-> "create", id |-> nextId, dto |-> PlainBody,
                        result |-> "ok", ret |-> r.ret]
    /\ UNCHANGED <<pending, uiVars>>

\* update, up to the NotFound check.
UpdateFindOne(w) ==
    /\ pending[w] = NoRequest
    /\ \E id \in 1..MaxConcId, dto \in ConcDtos :
        LET found == findOne(store, id)
        IN  IF found = <<>>
            THEN /\ last' = [op |-> "update", id |-> id, dto |-> NoDto,
                             result |-> "NotFound", ret |-> <<>>]
                 /\ UNCHANGED pending
            ELSE /\ pending' = [pending EXCEPT ![w] =
                                  <<[phase |-> "read", id |-> id, dto |-> dto,
                                     incident |-> found[1]]>>]
                 /\ UNCHANGED last
    /\ UNCHANGED <<store, nextId, uiVars>>

\* update, from the assignments to save.
UpdateSave(w) ==
    /\ pending[w] # NoRequest
    /\ pending[w][1].phase = "read"
    /\ LET req == pending[w][1]
           incident == ApplyUpdate(req.incident, req.dto)
       IN  /\ store' = save(store, incident)
           /\ pending' = [pending EXCEPT ![w] =
                             <<[req EXCEPT !.phase = "saved",
                                           !.incident = incident]>>]
           /\ last' = [op |-> "update", id |-> req.id, dto |-> req.dto,
                       result |-> "ok", ret |-> <<incident>>,
                       slot |-> w, read |-> req.incident]
    /\ UNCHANGED <<nextId, uiVars>>

\* The response of update is sent.
UpdateDone(w) ==
    /\ pending[w] # NoRequest
    /\ pending[w][1].phase = "saved"
    /\ pending' = [pending EXCEPT ![w] = NoRequest]
    /\ UNCHANGED <<store, nextId, last, uiVars>>

ConcRemove ==
    /\ \E id \in 1..MaxConcId :
        LET r == remove(store, id)
        IN  /\ store' = r.store
            /\ last' = [op |-> "remove", id |-> id, dto |-> NoDto,
                        result |-> r.result, ret |-> <<>>]
    /\ UNCHANGED <<nextId, pending, uiVars>>

ConcNext ==
    \/ ConcCreate
    \/ \E w \in Slots : UpdateFindOne(w)
    \/ \E w \in Slots : UpdateSave(w)
    \/ \E w \in Slots : UpdateDone(w)
    \/ ConcRemove

ConcSpec == Init /\ [][ConcNext]_vars

\* ------------------------------------------------------------------ C12
\* C12: when two updates of the same id overlap, the stored record after a
\* save is the record that save wrote - the row that update had read with
\* the fields of its own body applied - so what the other update saved in
\* between is lost.
C12_LastWriteWins ==
    (last.op = "update" /\ last.result = "ok") =>
        /\ last.id \in DOMAIN store
        /\ store[last.id] = last.ret[1]
        /\ store[last.id].status = last.dto.status
        /\ store[last.id].closedOn =
               (IF last.dto.closedOn # NoDate THEN last.dto.closedOn
                ELSE last.read.closedOn)
        /\ store[last.id].totalTime =
               (IF last.dto.closedOn # NoDate
                THEN <<"1", " ", "d", "a", "y", "s">>
                ELSE last.read.totalTime)

\* Both updates of incident 1 have saved; slot 1 saved a closing time, slot
\* 2 had read the row before that and saved last: the closing is lost.
C12_Witness ==
    /\ pending[1] # NoRequest
    /\ pending[2] # NoRequest
    /\ pending[1][1].phase = "saved"
    /\ pending[2][1].phase = "saved"
    /\ pending[1][1].id = pending[2][1].id
    /\ pending[1][1].incident.closedOn # NoDate
    /\ last.op = "update"
    /\ last.result = "ok"
    /\ last.slot = 2
    /\ store[last.id].status = InProgress
    /\ store[last.id].closedOn = NoDate

\* ------------------------------------------------------------------ C14
\* C14: once delete(id) has succeeded no record with that id exists in any
\* later state, also when an update that read the record before the delete
\* saves after it.
C14_DeletedStaysDeleted ==
    [][\A id \in 1..(nextId - 1) :
          id \notin DOMAIN store => id \notin DOMAIN store']_vars

\* ------------------------------------------------------------------ C13
\* C13: in every reachable state every stored incident with non-null
\* closedOn has totalTime equal to the duration text of the whole hours
\* from its dateTime to its current closedOn ("<h div 24> days" from 24
\* hours on, "<h> hours" below), also after it was closed again with
\* another closedOn.
C13_TotalTimeMatchesClosedOn ==
    \A id \in DOMAIN store :
        store[id].closedOn # NoDate =>
            LET ms == store[id].closedOn - store[id].dateTime
                h == CHOOSE k \in -HoursPerDay..(3 * HoursPerDay) :
                         k * MsPerHour <= ms /\ ms < (k + 1) * MsPerHour
            IN  store[id].totalTime =
                    (IF h >= 24
                     THEN IntToChars(h \div 24) \o <<" ", "d", "a", "y", "s">>
                     ELSE IntToChars(h) \o <<" ", "h", "o", "u", "r", "s">>)

\* A closed incident whose closing time was just replaced by a body that
\* supplies closedOn and no status.
C13_Witness ==
    /\ last.op = "update"
    /\ last.result = "ok"
    /\ last.dto.status = Null
    /\ last.dto.closedOn = 58 * HalfHour
    /\ store[last.id].status = Closed
    /\ store[last.id].dateTime = 11 * HalfHour
    /\ store[last.id].totalTime = <<"2", "3", " ", "h", "o", "u", "r", "s">>

\* ------------------------------------------------------------- the page
\* The page sends one request at a time and reloads its list after each,
\* so between requests loading is false and the list shows the table.
\* The browser's zone is taken to be UTC: the text of a datetime-local
\* input and the instant it denotes are the same number of milliseconds.

\* What the date input of the edit form can hold besides the empty text.
UiClosedOns == {10 * HalfHour, 58 * HalfHour}

\* record.closedOn.slice(0, 16): the ISO text cut after the minutes.
slice16(t) == t - (t % (1000 * 60))

\* Variant: the Update button does not look at the form.
UpdateDisabled_Never == FALSE

\* disabled of the Update button, loading being false.
UpdateDisabled ==
    editData.status = Closed /\ ~HasDate(editData.closedOn)

\* The Submit button of the report form is enabled only with all four
\* required fields filled in; the body is then posted.
handleSubmit ==
    /\ nextId <= MaxId
    /\ \E now \in Clocks :
        LET r == create(store, nextId, PlainBody, now)
        IN  /\ store' = r.store
            /\ nextId' = nextId + 1
            /\ last' = [op |-> "create", id |-> nextId, dto |-> PlainBody,
                        result |-> "ok", ret |-> r.ret]
    /\ UNCHANGED <<pending, uiVars>>

\* The Edit button of a row of the list.
handleEdit ==
    /\ \E record \in {store[id] : id \in DOMAIN store} :
        /\ editingIncident' = record.id
        /\ editData' = [status |-> record.status,
                        closedOn |-> IF HasDate(record.closedOn)
                                     THEN slice16(record.closedOn)
                                     ELSE NoDate]
    /\ showEditModal' = TRUE
    /\ UNCHANGED <<store, nextId, last, pending>>

\* The status select of the edit form.
SelectStatus ==
    /\ showEditModal /\ editingIncident # NoIncident
    /\ \E value \in Statuses : editData' = [editData EXCEPT !.status = value]
    /\ UNCHANGED <<store, nextId, last, pending, showEditModal, editingIncident>>

\* The Closed On input, shown while the selected status is 'Closed'.
EnterClosedOn ==
    /\ showEditModal /\ editingIncident # NoIncident
    /\ editData.status = Closed
    /\ \E value \in UiClosedOns \cup {NoDate} :
          editData' = [editData EXCEPT !.closedOn = value]
    /\ UNCHANGED <<store, nextId, last, pending, showEditModal, editingIncident>>

\* The Cancel button of the edit form.
CancelEdit ==
    /\ showEditModal /\ editingIncident # NoIncident
    /\ showEditModal' = FALSE
    /\ editData' = InitialEditData
    /\ UNCHANGED <<store, nextId, last, pending, editingIncident>>

\* The Update button of the edit form: the PATCH, and on success the form
\* is closed.
handleEditSubmit ==
    /\ showEditModal /\ editingIncident # NoIncident
    /\ ~UpdateDisabled
    /\ LET updateData ==
               [status |-> editData.status,
                closedOn |-> IF editData.status = Closed /\ HasDate(editData.closedOn)
                             THEN editData.closedOn
                             ELSE NoDate]
           r == update(store, editingIncident, updateData)
       IN  /\ store' = r.store
           /\ last' = [op |-> "update", id |-> editingIncident,
                       dto |-> updateData, result |-> r.result, ret |-> r.ret]
           /\ showEditModal' = IF r.result = "ok" THEN FALSE ELSE showEditModal
    /\ UNCHANGED <<nextId, pending, editingIncident, editData>>

\* The Delete button of a row of the list, confirmed.
handleDelete ==
    /\ \E id \in DOMAIN store :
        LET r == remove(store, id)
        IN  /\ store' = r.store
            /\ last' = [op |-> "remove", id |-> id, dto |-> NoDto,
                        result |-> r.result, ret |-> <<>>]
    /\ UNCHANGED <<nextId, pending, uiVars>>

UiNext ==
    \/ handleSubmit
    \/ handleEdit
    \/ SelectStatus
    \/ EnterClosedOn
    \/ CancelEdit
    \/ handleEditSubmit
    \/ handleDelete

UiSpec == Init /\ [][UiNext]_vars

\* ------------------------------------------------------------------ C15
\* C15: when incidents are updated only through the edit form, every PATCH
\* with status 'Closed' carries a closedOn and every PATCH with another
\* status carries none, and every stored incident with status 'Closed' has
\* non-null closedOn and totalTime.
C15_ClosedHasClosure ==
    /\ last.op = "update" =>
           ((last.dto.status = Closed) <=> (last.dto.closedOn # NoDate))
    /\ \A id \in DOMAIN store :
           store[id].status = Closed =>
               store[id].closedOn # NoDate /\ store[id].totalTime # Null

\* An incident was closed through the form and another one, closed and
\* reopened before, is stored too.
C15_Witness ==
    /\ last.op = "update"
    /\ last.result = "ok"
    /\ last.dto.status = Closed
    /\ last.dto.closedOn # NoDate
    /\ store[last.id].status = Closed
    /\ store[last.id].totalTime # Null
    /\ \E id \in DOMAIN store :
           store[id].status # Closed /\ store[id].closedOn # NoDate

====
